---------------------------- MODULE Spec2Model ----------------------------
(***************************************************************************)
(* A model of the reverse SOCKS5 agent (better-revsocks, client crate).    *)
(*                                                                         *)
(* The agent dials the controller, writes the 4 magic bytes, runs a yamux  *)
(* connection in server mode and spawns one SOCKS5 server task for every   *)
(* inbound logical stream.  Bytes are naturals in 0..255; a String is      *)
(* modelled by the sequence of its UTF-8 bytes.                            *)
(*                                                                         *)
(* Two specifications share the actions:                                   *)
(*   Spec      the program as built: every SOCKClient is made by           *)
(*             new_no_auth (auth_methods = [0x00], no users);              *)
(*   SpecAuth  the SOCKClient with its fields auth_methods / authed_users  *)
(*             drawn from a small set of configurations, for the claims    *)
(*             about SOCKClient::auth.                                     *)
(***************************************************************************)
EXTENDS Naturals, Sequences, FiniteSets

(***************************************************************************)
(* Bounds of the model.                                                    *)
(***************************************************************************)
\* number of inbound logical streams the controller opens in one session
MaxStreams == 2
\* total number of payload bytes the controller and the targets send
MaxPayload == 2
\* number of recoverable errors the inbound poll reports
MaxMuxErrors == 1
\* number of streams opened under SpecAuth
AuthStreams == 1

Streams == 1 .. MaxStreams

(***************************************************************************)
(* Program constants.                                                      *)
(***************************************************************************)
MAGIC_BYTES == <<27, 195, 189, 15>>      \* 0x1b 0xc3 0xbd 0x0f
SOCKS_VERSION == 5
RESERVED == 0

\* enum ResponseCode
Success == 0
Failure == 1
ConnectionRefused == 5
CommandNotSupported == 7
AddrTypeNotSupported == 8
ResponseCode == {Success, Failure, ConnectionRefused, CommandNotSupported,
                 AddrTypeNotSupported}

\* enum AuthMethods
NoAuth == 0
UserPass == 2
NoMethods == 255

(***************************************************************************)
(* Sequence helpers.                                                       *)
(***************************************************************************)
Range(q) == {q[i] : i \in 1 .. Len(q)}
Contains(q, x) == \E i \in 1 .. Len(q) : q[i] = x
Take(q, n) == SubSeq(q, 1, n)
Drop(q, n) == SubSeq(q, n + 1, Len(q))
IsPrefix(p, q) == Len(p) <= Len(q) /\ Take(q, Len(p)) = p
Prefixes(q) == {Take(q, n) : n \in 0 .. Len(q)}

VARIABLES
    \* ---- the session (ReverseProxyClient::run / main)
    sess,          \* "start" | "connected" | "accept", or closed:
                   \* "dial_failed" | "magic_failed" | "eof"
    exit,          \* "running" | "ok" (exit code 0) | "err" (non-zero)
    wire,          \* what the agent wrote to the transport, oldest first
    muxErrs,       \* recoverable inbound-poll errors logged so far
    \* ---- fields of SOCKClient shared by the tasks of the session
    auth_methods,  \* Arc<Vec<u8>>
    authed_users,  \* Arc<Vec<User>>, as a set of <<username, password>>
    \* ---- one SOCKS5 server task per logical stream
    pc,            \* position of the task of stream s
    res,           \* result of SOCKClient::init
    out,           \* bytes the agent wrote to the logical stream
    wshut,         \* the agent shut the stream's write half down
    trace,         \* history: the I/O operations of the task, in order
    pdu,           \* the greeting or subnegotiation the task read last
    req,           \* <<SOCKSReq>> once from_stream has parsed a request
    repliedAt,     \* history: Len(out[s]) just after the success reply, or 0
    sock_addr,     \* the resolved address list of the CONNECT request
    dialed,        \* history: addresses a TCP connect was attempted to
    target,        \* <<address>> of the upstream socket once connected
    \* ---- splicing
    sentC,         \* history: payload bytes the controller sent on s
    c2a,           \* controller bytes not yet read by the agent
    toTarget,      \* bytes the agent wrote to the upstream socket
    sentT,         \* history: bytes the upstream target sent
    t2a,           \* target bytes not yet read by the agent
    s2tDone,       \* copy direction stream -> target has read EOF and finished
    t2sDone        \* copy direction target -> stream has read EOF and finished

sessVars == <<sess, exit, wire, muxErrs>>
cfgVars == <<auth_methods, authed_users>>
taskVars == <<pc, res, out, wshut, trace, pdu, req, repliedAt, sock_addr, dialed,
              target>>
spliceVars == <<sentC, c2a, toTarget, sentT, t2a, s2tDone, t2sDone>>
vars == <<sessVars, cfgVars, taskVars, spliceVars>>


(***************************************************************************)
(* The transport.  wire holds <<"raw", b>> for a byte written directly on  *)
(* the transport and <<"frame", 0>> for a frame written by the yamux       *)
(* connection; it is recorded up to and including the first frame.         *)
(***************************************************************************)
Raw(bytes) == [i \in 1 .. Len(bytes) |-> <<"raw", bytes[i]>>]
WireBytes == [i \in 1 .. Len(wire) |-> wire[i][2]]
FrameSent == \E i \in 1 .. Len(wire) : wire[i][1] = "frame"
SendFrame == IF FrameSent THEN wire ELSE Append(wire, <<"frame", 0>>)

\* AsyncWriteExt::write_all: n of the bytes reach the transport before the
\* write completes (n = Len(buf)) or fails (n < Len(buf))
write_all(buf, n) == [wrote |-> Take(buf, n), ok |-> n = Len(buf)]

Closed == sess \in {"dial_failed", "magic_failed", "eof"}

(***************************************************************************)
(* ReverseProxyClient::run / establish_connection, main.                   *)
(* TcpStream::connect, and with config.tls the TLS handshake.              *)
(***************************************************************************)
establish_connection ==
    /\ sess = "start"
    /\ \E tls \in BOOLEAN :
       \E outcome \in {"ok", "dial_err"} \cup (IF tls THEN {"tls_err"} ELSE {}) :
          /\ sess' = IF outcome = "ok" THEN "connected" ELSE "dial_failed"
          /\ exit' = IF outcome = "ok" THEN exit ELSE "err"
    /\ UNCHANGED <<wire, muxErrs, cfgVars, taskVars, spliceVars>>

(***************************************************************************)
(* handle_connection / connect_to_agent_server: the magic write, then      *)
(* Connection::new(.., Mode::Server).                                      *)
(***************************************************************************)
\* mutant: the result of the magic write is not looked at
MagicWriteResult_unchecked(w) == "accept"

MagicWriteResult(w) == IF w.ok THEN "accept" ELSE "magic_failed"

write_magic ==
    /\ sess = "connected"
    /\ \E n \in 0 .. Len(MAGIC_BYTES) :
          LET w == write_all(MAGIC_BYTES, n) IN
          /\ wire' = wire \o Raw(w.wrote)
          /\ sess' = MagicWriteResult(w)
          /\ exit' = IF w.ok THEN exit ELSE "err"
    /\ UNCHANGED <<muxErrs, cfgVars, taskVars, spliceVars>>

(***************************************************************************)
(* The accept loop: the three outcomes of poll_next_inbound.               *)
(***************************************************************************)
NextStream == IF \E s \in Streams : pc[s] = "none"
              THEN CHOOSE s \in Streams :
                     pc[s] = "none" /\ \A r \in Streams : pc[r] = "none" => s <= r
              ELSE 0

\* mutant: the loop awaits the task of a stream before it polls again
loop_polling_joined == sess = "accept" /\ \A s \in Streams : pc[s] \in {"none", "done"}

\* the loop is at poll_next_inbound: tokio::spawn has returned at once and the
\* loop awaits no task
loop_polling == sess = "accept"

\* Some(Ok(stream)): tokio::spawn of a task owning a fresh SOCKClient;
\* at most n streams are opened
accept_upto(n) ==
    /\ loop_polling
    /\ NextStream \in 1 .. n
    /\ pc' = [pc EXCEPT ![NextStream] = "init"]
    /\ res' = [res EXCEPT ![NextStream] = "running"]
    /\ UNCHANGED <<sessVars, cfgVars, out, wshut, trace, pdu, req, repliedAt,
                   sock_addr, dialed, target, spliceVars>>

\* mutant: an error of the inbound poll is returned from the loop
inbound_error_fatal == "eof"

\* the state of the loop after the arm Some(Err(e)): continue
inbound_error == "accept"

\* Some(Err(e)): logged, continue
accept_error ==
    /\ loop_polling
    /\ muxErrs < MaxMuxErrors
    /\ muxErrs' = muxErrs + 1
    /\ sess' = inbound_error
    /\ UNCHANGED <<exit, wire, cfgVars, taskVars, spliceVars>>

accept_stream == accept_upto(MaxStreams)

\* the state of the tasks when there is none
NoTasks ==
    /\ res = [s \in Streams |-> "none"]
    /\ out = [s \in Streams |-> <<>>]
    /\ wshut = [s \in Streams |-> FALSE]
    /\ trace = [s \in Streams |-> <<>>]
    /\ pdu = [s \in Streams |-> <<>>]
    /\ req = [s \in Streams |-> <<>>]
    /\ repliedAt = [s \in Streams |-> 0]
    /\ sock_addr = [s \in Streams |-> <<>>]
    /\ dialed = [s \in Streams |-> <<>>]
    /\ target = [s \in Streams |-> <<>>]
    /\ sentC = [s \in Streams |-> <<>>]
    /\ c2a = [s \in Streams |-> <<>>]
    /\ toTarget = [s \in Streams |-> <<>>]
    /\ sentT = [s \in Streams |-> <<>>]
    /\ t2a = [s \in Streams |-> <<>>]
    /\ s2tDone = [s \in Streams |-> FALSE]
    /\ t2sDone = [s \in Streams |-> FALSE]

\* the result the process ends with when run / connect_to_agent_server
\* returns after the inbound poll gave None
eof_result == "err"

\* mutant: the tasks outlive the session and stay where they are
task_at_exit_detached(p) == p

\* a task when the runtime shuts down: one still running is dropped at the
\* suspension point it waits at ("cancelled"), one that returned is gone
task_at_exit(p) ==
    IF p = "none" THEN "none" ELSE IF p = "done" THEN "exited" ELSE "cancelled"

\* None: return Err("connection closed"); main returns it and the process
\* ends, and with it the runtime, its tasks, the streams and the sockets
accept_eof ==
    /\ loop_polling
    /\ sess' = "eof"
    /\ exit' = eof_result
    /\ pc' = [s \in Streams |-> task_at_exit(pc[s])]
    /\ res' = [s \in Streams |-> "none"]
    /\ out' = [s \in Streams |-> <<>>]
    /\ wshut' = [s \in Streams |-> FALSE]
    /\ trace' = [s \in Streams |-> <<>>]
    /\ pdu' = [s \in Streams |-> <<>>]
    /\ req' = [s \in Streams |-> <<>>]
    /\ repliedAt' = [s \in Streams |-> 0]
    /\ sock_addr' = [s \in Streams |-> <<>>]
    /\ dialed' = [s \in Streams |-> <<>>]
    /\ target' = [s \in Streams |-> <<>>]
    /\ sentC' = [s \in Streams |-> <<>>]
    /\ c2a' = [s \in Streams |-> <<>>]
    /\ toTarget' = [s \in Streams |-> <<>>]
    /\ sentT' = [s \in Streams |-> <<>>]
    /\ t2a' = [s \in Streams |-> <<>>]
    /\ s2tDone' = [s \in Streams |-> FALSE]
    /\ t2sDone' = [s \in Streams |-> FALSE]
    /\ UNCHANGED <<wire, muxErrs, cfgVars>>

(***************************************************************************)
(* String::from_utf8_lossy.  A well-formed UTF-8 sequence is kept; every   *)
(* maximal ill-formed part is replaced by U+FFFD (EF BF BD).               *)
(***************************************************************************)
REPLACEMENT == <<239, 191, 189>>

\* length of the sequence a lead byte announces, 0 for a byte that cannot lead
Utf8Width(b) == IF b < 128 THEN 1
                ELSE IF b >= 194 /\ b <= 223 THEN 2
                ELSE IF b >= 224 /\ b <= 239 THEN 3
                ELSE IF b >= 240 /\ b <= 244 THEN 4
                ELSE 0

\* may byte c stand at place k (2, 3 or 4) of a sequence led by b
Utf8Cont(b, k, c) ==
    IF k = 2 /\ b = 224 THEN c >= 160 /\ c <= 191
    ELSE IF k = 2 /\ b = 237 THEN c >= 128 /\ c <= 159
    ELSE IF k = 2 /\ b = 240 THEN c >= 144 /\ c <= 191
    ELSE IF k = 2 /\ b = 244 THEN c >= 128 /\ c <= 143
    ELSE c >= 128 /\ c <= 191

\* number of bytes of q, from its head, that form a well-formed prefix of one
\* encoded character
RECURSIVE Utf8Good(_, _)
Utf8Good(q, k) ==
    IF k > Utf8Width(q[1]) \/ k > Len(q) THEN k - 1
    ELSE IF Utf8Cont(q[1], k, q[k]) THEN Utf8Good(q, k + 1)
    ELSE k - 1

RECURSIVE from_utf8_lossy(_)
from_utf8_lossy(q) ==
    IF q = <<>> THEN <<>>
    ELSE IF Utf8Width(q[1]) = 0 THEN REPLACEMENT \o from_utf8_lossy(Tail(q))
    ELSE LET n == Utf8Good(q, 2) IN
         IF n = Utf8Width(q[1])
         THEN Take(q, n) \o from_utf8_lossy(Drop(q, n))
         ELSE REPLACEMENT \o from_utf8_lossy(Drop(q, n))

(***************************************************************************)
(* The outcome of one stretch of a task: the next position, the result of  *)
(* init so far, the bytes written to the stream, whether the write half    *)
(* was shut down, and the I/O operations performed.                        *)
(***************************************************************************)
Outcome(p, r, w, sh, ev) == [pc |-> p, res |-> r, w |-> w, shut |-> sh, ev |-> ev]

\* mutant: an error of init is returned from the accept loop
spawned_task_propagates(result) ==
    IF result \in {"running", "Ok"} THEN sess ELSE "eof"

\* the closure given to tokio::spawn: the result of init is logged and the
\* task ends; the accept loop's state is what it was
spawned_task(result) == sess

Apply(s, o) ==
    /\ pc' = [pc EXCEPT ![s] = o.pc]
    /\ res' = [res EXCEPT ![s] = o.res]
    /\ out' = [out EXCEPT ![s] = @ \o o.w]
    /\ wshut' = [wshut EXCEPT ![s] = @ \/ o.shut]
    /\ trace' = [trace EXCEPT ![s] = @ \o o.ev]
    /\ wire' = IF o.w # <<>> \/ o.shut THEN SendFrame ELSE wire
    /\ sess' = spawned_task(o.res)
    /\ UNCHANGED <<exit, muxErrs, cfgVars>>

(***************************************************************************)
(* SOCKClient::get_avalible_methods and the method choice of auth.         *)
(***************************************************************************)
get_avalible_methods(offered) ==
    SelectSeq(offered, LAMBDA m : Contains(auth_methods, m))

\* mutant: the first method of the client's list that is accepted
auth_select_first(methods) == IF methods = <<>> THEN NoMethods ELSE methods[1]

\* mutant: without a common method the client is served without authentication
auth_select_default(methods) ==
    IF Contains(methods, UserPass) THEN UserPass ELSE NoAuth

auth_select(methods) ==
    IF Contains(methods, UserPass) THEN UserPass
    ELSE IF Contains(methods, NoAuth) THEN NoAuth
    ELSE NoMethods

(***************************************************************************)
(* SOCKClient::init up to the method reply: on input g followed by EOF.    *)
(***************************************************************************)
\* mutant: the version byte of the greeting is not looked at
init_run_any_version(g) ==
    IF Len(g) < 2
    THEN Outcome("done", "Err_Io", <<>>, FALSE, <<"read_err">>)
    ELSE IF Len(g) < 2 + g[2]
    THEN Outcome("done", "Err_Io", <<>>, FALSE, <<"read_greeting", "read_err">>)
    ELSE LET m == auth_select(get_avalible_methods(SubSeq(g, 3, 2 + g[2])))
             ev == <<"read_greeting", "read_methods", "write_method">>
         IN  IF m = NoAuth
             THEN Outcome("request", "running", <<SOCKS_VERSION, m>>, FALSE, ev)
             ELSE Outcome("done", "Err_Socks_Failure", <<SOCKS_VERSION, m>>, TRUE,
                          Append(ev, "shutdown"))

init_run(g) ==
    IF Len(g) < 2
    THEN Outcome("done", "Err_Io", <<>>, FALSE, <<"read_err">>)
    ELSE IF g[1] # SOCKS_VERSION
    THEN Outcome("done", "Ok", <<>>, TRUE, <<"read_greeting", "shutdown">>)
    ELSE IF Len(g) < 2 + g[2]
    THEN Outcome("done", "Err_Io", <<>>, FALSE, <<"read_greeting", "read_err">>)
    ELSE LET m == auth_select(get_avalible_methods(SubSeq(g, 3, 2 + g[2])))
             ev == <<"read_greeting", "read_methods", "write_method">>
         IN  IF m = UserPass
             THEN Outcome("auth", "running", <<SOCKS_VERSION, m>>, FALSE, ev)
             ELSE IF m = NoAuth
             THEN Outcome("request", "running", <<SOCKS_VERSION, m>>, FALSE, ev)
             ELSE Outcome("done", "Err_Socks_Failure", <<SOCKS_VERSION, m>>, TRUE,
                          Append(ev, "shutdown"))

\* the greetings the controller sends: a version, a method list, cut anywhere
Greeting(ver, methods) == <<ver, Len(methods)>> \o methods
MethodLists == {<<>>, <<0>>, <<1>>, <<2>>, <<0, 2>>, <<2, 0>>, <<1, 2>>}
GreetingInputs ==
    UNION {Prefixes(Greeting(v, m)) : v \in {4, 5}, m \in MethodLists}

init(s) ==
    /\ sess = "accept"
    /\ pc[s] = "init"
    /\ \E g \in GreetingInputs :
          /\ Apply(s, init_run(g))
          /\ pdu' = [pdu EXCEPT ![s] = g]
    /\ UNCHANGED <<req, repliedAt, sock_addr, dialed, target, spliceVars>>

(***************************************************************************)
(* SOCKClient::auth, the RFC 1929 subnegotiation after [5, 2].             *)
(***************************************************************************)
\* mutant: only the username is compared
authed_by_name(user) == \E u \in authed_users : u[1] = user[1]

authed(user) == user \in authed_users

auth_reply(user) ==
    IF authed(user)
    THEN Outcome("request", "running", <<1, Success>>, FALSE,
                 <<"read_auth", "write_auth">>)
    ELSE Outcome("request", "running", <<1, Failure>>, TRUE,
                 <<"read_auth", "write_auth", "shutdown">>)

auth_run(a) ==
    IF Len(a) < 2 \/ Len(a) < 3 + a[2] \/ Len(a) < 3 + a[2] + a[3 + a[2]]
    THEN Outcome("done", "Err_Io", <<>>, FALSE, <<"read_err">>)
    ELSE LET ulen == a[2]
             plen == a[3 + ulen]
             username == from_utf8_lossy(SubSeq(a, 3, 2 + ulen))
             password == from_utf8_lossy(SubSeq(a, 4 + ulen, 3 + ulen + plen))
         IN  auth_reply(<<username, password>>)

Subneg(u, p) == <<1, Len(u)>> \o u \o <<Len(p)>> \o p
\* "a", "b", an ill-formed byte, a cut 3-byte sequence, U+FFFD itself
UserNames == {<<97>>, <<98>>, <<255>>, <<226, 130>>, REPLACEMENT}
Passwords == {<<112>>, <<113>>}
AuthInputs == UNION {Prefixes(Subneg(u, p)) : u \in UserNames, p \in Passwords}

auth(s) ==
    /\ sess = "accept"
    /\ pc[s] = "auth"
    /\ \E a \in AuthInputs :
          /\ Apply(s, auth_run(a))
          /\ pdu' = [pdu EXCEPT ![s] = a]
    /\ UNCHANGED <<req, repliedAt, sock_addr, dialed, target, spliceVars>>

(***************************************************************************)
(* SOCKSReq::from_stream: the request PDU q, followed by EOF if q is too   *)
(* short.  A wrong version shuts the stream down and parsing goes on.      *)
(***************************************************************************)
\* SockCommand::from
SockCommand_from(n) == IF n = 1 THEN "Connect"
                       ELSE IF n = 2 THEN "Bind"
                       ELSE IF n = 3 THEN "UdpAssosiate"
                       ELSE "None"

\* AddrType::from
AddrType_from(n) == IF n = 1 THEN "V4"
                    ELSE IF n = 3 THEN "Domain"
                    ELSE IF n = 4 THEN "V6"
                    ELSE "None"

\* number of bytes of the address field, its length byte included
AddrFieldLen(addr_type, q) ==
    IF addr_type = "V4" THEN 4
    ELSE IF addr_type = "V6" THEN 16
    ELSE IF Len(q) < 5 THEN 1
    ELSE 1 + q[5]

ReqFail(err, sh, ev) ==
    [ok |-> FALSE, err |-> err, shut |-> sh, ev |-> ev, version |-> 0,
     command |-> "None",
     addr_type |-> "None", addr |-> <<>>, port |-> 0, used |-> 0]

from_stream(q) ==
    IF Len(q) < 4 THEN ReqFail("Err_Io", FALSE, <<"read_err">>)
    ELSE LET sh == q[1] # SOCKS_VERSION
             ev == IF sh THEN <<"read_request", "shutdown">> ELSE <<"read_request">>
             command == SockCommand_from(q[2])
             addr_type == AddrType_from(q[4])
             alen == AddrFieldLen(addr_type, q)
         IN  IF command = "None"
             THEN ReqFail("Err_Socks_CommandNotSupported", TRUE, Append(ev, "shutdown"))
             ELSE IF addr_type = "None"
             THEN ReqFail("Err_Socks_AddrTypeNotSupported", TRUE, Append(ev, "shutdown"))
             ELSE IF Len(q) < 4 + alen + 2
             THEN ReqFail("Err_Io", sh, Append(ev, "read_err"))
             ELSE [ok |-> TRUE, err |-> "", shut |-> sh, ev |-> ev, version |-> q[1],
                   command |-> command, addr_type |-> addr_type,
                   addr |-> IF addr_type = "Domain"
                            THEN SubSeq(q, 6, 4 + alen)
                            ELSE SubSeq(q, 5, 4 + alen),
                   port |-> q[4 + alen + 1] * 256 + q[4 + alen + 2],
                   used |-> 4 + alen + 2]

(***************************************************************************)
(* addr_to_socket.  lookup is the answer of lookup_host for a domain:      *)
(* <<>> for an error, else the list of resolved IPv4 addresses.            *)
(***************************************************************************)
addr_to_socket(addr_type, addr, port, lookup) ==
    IF addr_type = "V6"
    THEN [ok |-> TRUE,
          addrs |-> << <<"V6", [x \in 1 .. 8 |-> addr[2 * x - 1] * 256 + addr[2 * x]],
                         port>> >>]
    ELSE IF addr_type = "V4"
    THEN [ok |-> TRUE, addrs |-> << <<"V4", addr, port>> >>]
    ELSE [ok |-> lookup # <<>>,
          addrs |-> [i \in 1 .. Len(lookup) |-> <<"V4", lookup[i], port>>]]

Loopback == <<127, 0, 0, 1>>
Unroutable == <<10, 255, 255, 1>>
\* answers of lookup_host: an error, or two addresses
LookupResults == {<<>>, <<Loopback, Unroutable>>}

(***************************************************************************)
(* SOCKClient::handle_client up to the dial: request, command, resolution. *)
(***************************************************************************)
\* mutant: every command is served as CONNECT is
handle_client_run_any(r, sa) ==
    IF ~r.ok THEN Outcome("done", r.err, <<>>, r.shut, r.ev)
    ELSE Outcome("dial", "running", <<>>, r.shut, Append(r.ev, "resolve"))

handle_client_run(r, sa) ==
    IF ~r.ok THEN Outcome("done", r.err, <<>>, r.shut, r.ev)
    ELSE IF r.command = "Connect"
    THEN IF sa.ok
         THEN Outcome("dial", "running", <<>>, r.shut, Append(r.ev, "resolve"))
         ELSE Outcome("done", "Err_Io", <<>>, r.shut, Append(r.ev, "resolve"))
    ELSE Outcome("done", "Err_Io", <<>>, r.shut, r.ev)

\* struct SOCKSReq, of a parse that succeeded
SOCKSReq(r) == [version |-> r.version, command |-> r.command,
                addr_type |-> r.addr_type, addr |-> r.addr, port |-> r.port]

Request(ver, cmd, atyp, addr, port) == <<ver, cmd, RESERVED, atyp>> \o addr \o port
V6Loopback == [i \in 1 .. 16 |-> IF i = 16 THEN 1 ELSE 0]
\* (ATYP, address field): 127.0.0.1, the domain "h", ::1, an unknown ATYP
DstAddrs == {<<1, Loopback>>, <<3, <<1, 104>>>>, <<4, V6Loopback>>, <<5, Loopback>>}
\* the payload of the controller ("h", "i", ..) and of the target ("0", "1", ..)
ControllerBlob == [i \in 1 .. MaxPayload |-> 103 + i]
TargetBlob == [i \in 1 .. MaxPayload |-> 47 + i]
WholeRequests ==
    {Request(v, c, a[1], a[2], <<0, 80>>) : v \in {4, 5}, c \in {1, 2, 3, 9}, a \in DstAddrs}
\* the requests the controller sends: whole, cut anywhere, or followed at once
\* by the first payload byte
RequestInputs ==
    WholeRequests
    \cup UNION {Prefixes(Request(5, 1, a[1], a[2], <<0, 80>>)) : a \in DstAddrs}
    \cup {Request(5, 1, 1, Loopback, <<0, 80>>) \o Take(ControllerBlob, 1)}

PayloadSent ==
    LET RECURSIVE Sum(_)
        Sum(n) == IF n = 0 THEN 0 ELSE Len(sentC[n]) + Len(sentT[n]) + Sum(n - 1)
    IN  Sum(MaxStreams)

handle_client(s) ==
    /\ sess = "accept"
    /\ pc[s] = "request"
    /\ \E q \in RequestInputs :
       \E lookup \in IF Len(q) > 3 /\ q[4] = 3 THEN LookupResults ELSE {<<>>} :
          LET r == from_stream(q)
              sa == IF r.ok /\ r.command = "Connect"
                    THEN addr_to_socket(r.addr_type, r.addr, r.port, lookup)
                    ELSE [ok |-> FALSE, addrs |-> <<>>]
              o == handle_client_run(r, sa)
              rest == IF o.pc = "dial" THEN Drop(q, r.used) ELSE <<>>
          IN  /\ PayloadSent + Len(rest) <= MaxPayload
              /\ Apply(s, o)
              /\ pdu' = [pdu EXCEPT ![s] = <<>>]
              /\ req' = [req EXCEPT ![s] = IF r.ok THEN <<SOCKSReq(r)>> ELSE <<>>]
              /\ sock_addr' = [sock_addr EXCEPT ![s] = IF o.pc = "dial" THEN sa.addrs ELSE @]
              /\ sentC' = [sentC EXCEPT ![s] = @ \o rest]
              /\ c2a' = [c2a EXCEPT ![s] = @ \o rest]
    /\ UNCHANGED <<repliedAt, dialed, target, toTarget, sentT, t2a, s2tDone, t2sDone>>

(***************************************************************************)
(* SocksReply::new: the fixed 10-byte reply.                               *)
(***************************************************************************)
\* mutant: the bound address as an empty DOMAINNAME
SocksReply_new_domain(status) == <<SOCKS_VERSION, status, RESERVED, 3, 0, 0, 0>>

SocksReply_new(status) == <<SOCKS_VERSION, status, RESERVED, 1, 0, 0, 0, 0, 0, 0>>

(***************************************************************************)
(* The dial: timeout(time_out, TcpStream::connect(&sock_addr[..])).        *)
(* connect tries the addresses in order until one accepts; beh[i] is what  *)
(* the i-th target does: "accept", "refuse", or "blackhole" (no answer,    *)
(* so that the timeout elapses while that attempt is pending).             *)
(***************************************************************************)
Behaviours == {"accept", "refuse", "blackhole"}

\* index of the attempt that decides the dial, 0 if every target refuses
RECURSIVE Deciding(_, _)
Deciding(beh, i) ==
    IF i > Len(beh) THEN 0
    ELSE IF beh[i] = "refuse" THEN Deciding(beh, i + 1)
    ELSE i

connect_attempts(addrs, beh) ==
    LET d == Deciding(beh, 1) IN IF d = 0 THEN addrs ELSE Take(addrs, d)

connect_result(beh) ==
    LET d == Deciding(beh, 1) IN
    IF d = 0 THEN "Err_Io"
    ELSE IF beh[d] = "blackhole" THEN "Err_Socks_ConnectionRefused"
    ELSE "Ok"

\* mutant: the success reply is sent before the result of the dial is known
dial_run_reply_first(r, shut) ==
    IF shut THEN Outcome("done", "Err_Io", <<>>, FALSE, <<"write_err">>)
    ELSE IF r # "Ok"
    THEN Outcome("done", r, SocksReply_new(Success), FALSE, <<"write_reply", "dial">>)
    ELSE Outcome("splice", "running", SocksReply_new(Success), FALSE,
                 <<"write_reply", "dial">>)

\* what handle_client does with the result of the dial
dial_run(r, shut) ==
    IF r # "Ok" THEN Outcome("done", r, <<>>, FALSE, <<"dial">>)
    ELSE IF shut THEN Outcome("done", "Err_Io", <<>>, FALSE, <<"dial", "write_err">>)
    ELSE Outcome("splice", "running", SocksReply_new(Success), FALSE,
                 <<"dial", "write_reply">>)

connect(s) ==
    /\ sess = "accept"
    /\ pc[s] = "dial"
    /\ \E beh \in [1 .. Len(sock_addr[s]) -> Behaviours] :
          LET o == dial_run(connect_result(beh), wshut[s]) IN
          /\ Apply(s, o)
          /\ dialed' = [dialed EXCEPT ![s] = connect_attempts(sock_addr[s], beh)]
          /\ target' = [target EXCEPT ![s] =
                           IF connect_result(beh) = "Ok"
                           THEN <<sock_addr[s][Deciding(beh, 1)]>> ELSE <<>>]
          /\ repliedAt' = [repliedAt EXCEPT ![s] =
                              IF o.pc = "splice" THEN Len(out[s]) + Len(o.w) ELSE @]
          \* the stream and what it buffered are dropped with a task that ends
          /\ c2a' = [c2a EXCEPT ![s] = IF o.pc = "splice" THEN @ ELSE <<>>]
          /\ sentC' = [sentC EXCEPT ![s] = IF o.pc = "splice" THEN @ ELSE <<>>]
    \* sock_addr is moved into the connect future
    /\ sock_addr' = [sock_addr EXCEPT ![s] = <<>>]
    /\ UNCHANGED <<pdu, req, toTarget, sentT, t2a, s2tDone, t2sDone>>

(***************************************************************************)
(* tokio::io::copy_bidirectional(&mut self.stream, &mut target) and the    *)
(* two peers of the splice.                                                *)
(***************************************************************************)
controller_send(s) ==
    /\ sess = "accept"
    /\ pc[s] = "splice"
    /\ ~s2tDone[s]
    /\ PayloadSent < MaxPayload
    /\ LET b == ControllerBlob[Len(sentC[s]) + 1] IN
          /\ sentC' = [sentC EXCEPT ![s] = Append(@, b)]
          /\ c2a' = [c2a EXCEPT ![s] = Append(@, b)]
    /\ UNCHANGED <<sessVars, cfgVars, taskVars, toTarget, sentT, t2a, s2tDone, t2sDone>>

target_send(s) ==
    /\ sess = "accept"
    /\ pc[s] = "splice"
    /\ ~t2sDone[s]
    /\ PayloadSent < MaxPayload
    /\ LET b == TargetBlob[Len(sentT[s]) + 1] IN
          /\ sentT' = [sentT EXCEPT ![s] = Append(@, b)]
          /\ t2a' = [t2a EXCEPT ![s] = Append(@, b)]
    /\ UNCHANGED <<sessVars, cfgVars, taskVars, sentC, c2a, toTarget, s2tDone, t2sDone>>

\* mutant: the last byte read is not written
copy_chunk_short(pending, n) == Take(pending, n - 1)

\* one transfer of a copy direction: the bytes a read returned, as written
copy_chunk(pending, n) == Take(pending, n)

\* direction stream -> target: a read of n > 0 bytes written to the target,
\* or, nothing being left to read, the read of EOF (the controller has closed
\* its sending half) and the shutdown of the target's write half
copy_s2t(s) ==
    /\ sess = "accept"
    /\ pc[s] = "splice"
    /\ ~s2tDone[s]
    /\ IF c2a[s] # <<>>
       THEN \E n \in 1 .. Len(c2a[s]) :
               /\ toTarget' = [toTarget EXCEPT ![s] = @ \o copy_chunk(c2a[s], n)]
               /\ c2a' = [c2a EXCEPT ![s] = Drop(@, n)]
               /\ UNCHANGED s2tDone
       ELSE /\ s2tDone' = [s2tDone EXCEPT ![s] = TRUE]
            /\ UNCHANGED <<toTarget, c2a>>
    /\ UNCHANGED <<sessVars, cfgVars, taskVars, sentC, sentT, t2a, t2sDone>>

\* direction target -> stream: likewise, EOF shuts the stream's write half
copy_t2s(s) ==
    /\ sess = "accept"
    /\ pc[s] = "splice"
    /\ ~t2sDone[s]
    /\ IF t2a[s] # <<>>
       THEN \E n \in 1 .. Len(t2a[s]) :
               /\ out' = [out EXCEPT ![s] = @ \o copy_chunk(t2a[s], n)]
               /\ t2a' = [t2a EXCEPT ![s] = Drop(@, n)]
               /\ wire' = SendFrame
               /\ UNCHANGED <<t2sDone, wshut>>
       ELSE /\ t2sDone' = [t2sDone EXCEPT ![s] = TRUE]
            /\ wshut' = [wshut EXCEPT ![s] = TRUE]
            /\ wire' = SendFrame
            /\ UNCHANGED <<out, t2a>>
    /\ UNCHANGED <<sess, exit, muxErrs, cfgVars, pc, res, trace, pdu, req, repliedAt,
                   sock_addr, dialed, target, sentC, c2a, toTarget, sentT, s2tDone>>

\* handle_client returns: the stream and the target are dropped, and with
\* them what they buffered; the histories of the splice end with it
DropSockets(s) ==
    /\ sentC' = [sentC EXCEPT ![s] = <<>>]
    /\ c2a' = [c2a EXCEPT ![s] = <<>>]
    /\ toTarget' = [toTarget EXCEPT ![s] = <<>>]
    /\ sentT' = [sentT EXCEPT ![s] = <<>>]
    /\ t2a' = [t2a EXCEPT ![s] = <<>>]
    /\ s2tDone' = [s2tDone EXCEPT ![s] = FALSE]
    /\ t2sDone' = [t2sDone EXCEPT ![s] = FALSE]

\* the result of copy_bidirectional as handle_client maps it; nothing is
\* written to the stream
splice_result(r) == IF r = "Err_Other" THEN "Err_Io" ELSE "Ok"

\* mutant: a failure reply is written when the copy fails
splice_end_reply(r) ==
    Outcome("done", splice_result(r),
            IF r = "Err_Other" THEN <<SOCKS_VERSION, Failure, RESERVED, 1, 0, 0, 0, 0, 0, 0>>
            ELSE <<>>,
            FALSE, <<"splice_end">>)

splice_end(r) == Outcome("done", splice_result(r), <<>>, FALSE, <<"splice_end">>)

\* both directions finished: Ok((s_to_t, t_to_s))
splice_done(s) ==
    /\ sess = "accept"
    /\ pc[s] = "splice"
    /\ s2tDone[s] /\ t2sDone[s]
    /\ Apply(s, splice_end("Ok"))
    /\ DropSockets(s)
    /\ UNCHANGED <<pdu, req, repliedAt, sock_addr, dialed, target>>

\* a read or write of either direction fails: copy_bidirectional returns at
\* once with the error, NotConnected or another kind
splice_error(s) ==
    /\ sess = "accept"
    /\ pc[s] = "splice"
    /\ ~(s2tDone[s] /\ t2sDone[s])
    /\ \E e \in {"Err_NotConnected", "Err_Other"} :
          Apply(s, splice_end(e))
    /\ DropSockets(s)
    /\ UNCHANGED <<pdu, req, repliedAt, sock_addr, dialed, target>>

(***************************************************************************)
(* The specifications.                                                     *)
(***************************************************************************)
InitRest ==
    /\ sess = "start"
    /\ exit = "running"
    /\ wire = <<>>
    /\ muxErrs = 0
    /\ pc = [s \in Streams |-> "none"]
    /\ NoTasks

\* SOCKClient::new_no_auth, the constructor the dispatcher calls
new_no_auth == [auth_methods |-> <<NoAuth>>, authed_users |-> {}]

Init ==
    /\ auth_methods = new_no_auth.auth_methods
    /\ authed_users = new_no_auth.authed_users
    /\ InitRest

\* values of the fields auth_methods and authed_users of a SOCKClient
Configs ==
    {new_no_auth,
     [auth_methods |-> <<UserPass>>, authed_users |-> {<<<<97>>, <<112>>>>}],
     [auth_methods |-> <<NoAuth, UserPass>>, authed_users |-> {<<<<97>>, <<112>>>>}],
     [auth_methods |-> <<UserPass>>, authed_users |-> {<<REPLACEMENT, <<112>>>>}]}

InitAuth ==
    /\ \E c \in Configs :
          /\ auth_methods = c.auth_methods
          /\ authed_users = c.authed_users
    /\ InitRest

StreamNext(s) ==
    \/ init(s)
    \/ handle_client(s)
    \/ connect(s)
    \/ controller_send(s)
    \/ target_send(s)
    \/ copy_s2t(s)
    \/ copy_t2s(s)
    \/ splice_done(s)
    \/ splice_error(s)

SessionNext ==
    \/ establish_connection
    \/ write_magic
    \/ accept_stream
    \/ accept_error
    \/ accept_eof

Next == SessionNext \/ \E s \in Streams : StreamNext(s)

\* one SOCKClient with configured fields, over AuthStreams streams
NextAuth ==
    \/ establish_connection
    \/ write_magic
    \/ accept_upto(AuthStreams)
    \/ accept_error
    \/ accept_eof
    \/ \E s \in 1 .. AuthStreams : StreamNext(s) \/ auth(s)

Spec == Init /\ [][Next]_vars

SpecAuth == InitAuth /\ [][NextAuth]_vars

(***************************************************************************)
(* The claims.                                                             *)
(***************************************************************************)
MuxCreated == sess \in {"accept", "eof"}
StreamView(s) ==
    <<pc[s], res[s], out[s], wshut[s], trace[s], pdu[s], req[s], repliedAt[s],
      sock_addr[s], dialed[s], target[s], sentC[s], c2a[s], toTarget[s], sentT[s],
      t2a[s], s2tDone[s], t2sDone[s]>>

\* C1: whatever the agent has written to the transport starts with the bytes
\* of 1B C3 BD 0F, in order; the multiplexer exists, a stream was accepted or
\* a mux frame was sent only when all 4 are written; and after a failed magic
\* write no stream is ever accepted and no frame is ever sent.
C1_MagicFirst ==
    /\ \A i \in 1 .. Len(wire) :
          i <= Len(MAGIC_BYTES) => wire[i] = <<"raw", MAGIC_BYTES[i]>>
    /\ MAGIC_BYTES = <<27, 195, 189, 15>>
    /\ (MuxCreated \/ FrameSent \/ \E s \in Streams : pc[s] # "none")
          => Len(wire) >= Len(MAGIC_BYTES)
    /\ sess = "magic_failed"
          => /\ Len(wire) < Len(MAGIC_BYTES)
             /\ ~FrameSent
             /\ \A s \in Streams : pc[s] = "none"

\* a session that wrote the magic, accepted a stream and sent the first frame
C1_Witness ==
    /\ sess = "accept"
    /\ Len(wire) = Len(MAGIC_BYTES) + 1
    /\ wire[Len(wire)] = <<"frame", 0>>
    /\ \E s \in Streams : out[s] # <<>>

\* C2: a step that changes the state of stream k (its task ending in an
\* error included) leaves the session's accept loop and the process result
\* as they were and changes nothing of any other stream j.
C2_Isolation ==
    [][\A k \in Streams :
          (StreamView(k)' # StreamView(k) /\ pc'[k] \notin {"exited", "cancelled"})
             => /\ sess' = "accept"
                /\ exit' = exit
                /\ \A j \in Streams \ {k} : StreamView(j)' = StreamView(j)]_vars

\* stream k has ended on a malformed greeting, having written nothing, while
\* the loop is still accepting and another stream j is splicing
C2_Witness ==
    \E k \in Streams, j \in Streams :
        /\ j # k
        /\ sess = "accept"
        /\ pc[k] = "done" /\ req[k] = <<>> /\ out[k] = <<>>
        /\ trace[k] \in {<<"read_err">>, <<"read_greeting", "read_err">>,
                         <<"read_greeting", "shutdown">>}
        /\ pc[j] = "splice"

\* C10: when the inbound poll reports end-of-stream the process ends with
\* success (exit code 0), and it ends with a failure only after a dial, TLS
\* or magic-write error.
C10_ExitCodes ==
    /\ sess = "eof" => exit = "ok"
    /\ exit = "err" => sess \in {"dial_failed", "magic_failed"}

\* the task of s has just answered a whole greeting, held in pdu[s]
GreetingEv == <<"read_greeting", "read_methods", "write_method">>
AfterGreeting(s) == trace[s] \in {GreetingEv, Append(GreetingEv, "shutdown")}
Offered(s) == Drop(pdu[s], 2)

\* C3: the method reply is [5, m]; for an offer of exactly {0x00, 0x02}, in
\* either order, m = 0x02 when the accepted set contains 0x02 and m = 0x00
\* when the accepted set is {0x00}; and a selected m (not 0xFF) is both in
\* the offer and in the accepted set.
C3_MethodPreference ==
    \A s \in Streams :
       AfterGreeting(s) =>
          /\ Len(out[s]) = 2 /\ out[s][1] = 5
          /\ (Range(Offered(s)) = {0, 2} /\ Contains(auth_methods, 2))
                => out[s] = <<5, 2>>
          /\ (Range(Offered(s)) = {0, 2} /\ auth_methods = <<0>>)
                => out[s] = <<5, 0>>
          /\ out[s][2] # 255
                => out[s][2] \in Range(Offered(s)) \cap Range(auth_methods)

\* both methods are accepted, the client lists 0x00 first, and 0x02 is chosen
C3_Witness ==
    \E s \in Streams :
       /\ AfterGreeting(s)
       /\ pdu[s] = <<5, 2, 0, 2>>
       /\ auth_methods = <<0, 2>>
       /\ out[s] = <<5, 2>>

\* the task of s has just answered a whole subnegotiation, held in pdu[s]
AfterAuth(s) == pdu[s] # <<>> /\ trace[s][Len(trace[s])] \in {"write_auth", "shutdown"}
                /\ Contains(trace[s], "write_auth")
SubnegUser(s) == SubSeq(pdu[s], 3, 2 + pdu[s][2])
SubnegPass(s) == SubSeq(pdu[s], 4 + pdu[s][2], Len(pdu[s]))
AuthReply(s) == Drop(out[s], 2)

Command(s) == IF req[s] = <<>> THEN "None" ELSE req[s][1].command
WellFormedConnect(s) ==
    req[s] # <<>> /\ req[s][1].version = 5 /\ req[s][1].command = "Connect"
SuccessReply == <<5, 0, 0, 1, 0, 0, 0, 0, 0, 0>>

\* C5: a well-formed CONNECT whose dial succeeded has the success reply
\* written and is splicing, or has ended after splicing; a BIND or UDP
\* ASSOCIATE request ends the task at the request: nothing is resolved,
\* dialed, replied or spliced.
C5_CommandGating ==
    \A s \in Streams :
       /\ (WellFormedConnect(s) /\ target[s] # <<>>)
             => /\ repliedAt[s] = 12
                /\ SubSeq(out[s], 3, 12) = SuccessReply
                /\ \/ pc[s] = "splice"
                   \/ pc[s] = "done" /\ trace[s][Len(trace[s])] = "splice_end"
       /\ Command(s) \in {"Bind", "UdpAssosiate"}
             => /\ pc[s] = "done"
                /\ \A i \in 1 .. Len(trace[s]) :
                      trace[s][i] \notin {"resolve", "dial", "write_reply", "splice_end"}
                /\ sock_addr[s] = <<>> /\ dialed[s] = <<>> /\ target[s] = <<>>
                /\ repliedAt[s] = 0 /\ Len(out[s]) = 2
                /\ toTarget[s] = <<>>

\* one stream splices after a CONNECT, another has ended on a UDP ASSOCIATE
C5_Witness ==
    \E s \in Streams, r \in Streams :
       /\ WellFormedConnect(s) /\ target[s] # <<>> /\ pc[s] = "splice"
       /\ Command(r) = "UdpAssosiate" /\ pc[r] = "done"

DialFailed(s) ==
    WellFormedConnect(s) /\ pc[s] = "done" /\ Contains(trace[s], "dial")
    /\ target[s] = <<>>

\* C6: when the dial of a well-formed CONNECT times out or fails, the last
\* 10 bytes written on the stream are 05 05 00 01 00 00 00 00 00 00.
C6_RefusedReply ==
    \A s \in Streams :
       DialFailed(s) =>
          /\ Len(out[s]) >= 12
          /\ SubSeq(out[s], Len(out[s]) - 9, Len(out[s])) = <<5, 5, 0, 1, 0, 0, 0, 0, 0, 0>>

\* C7: SocksReply::new gives, for every reply code, the 10 bytes
\* [5, REP, 0, 1, 0,0,0,0, 0,0]; and whatever a task writes after its method
\* reply starts with 10 such bytes, whatever the address type of the request.
C7_ReplyShape ==
    /\ \A rc \in ResponseCode : SocksReply_new(rc) = <<5, rc, 0, 1, 0, 0, 0, 0, 0, 0>>
    /\ \A s \in Streams :
          Len(out[s]) > 2 =>
             /\ Len(out[s]) >= 12
             /\ repliedAt[s] = 12
             /\ \E rc \in ResponseCode :
                   SubSeq(out[s], 3, 12) = <<5, rc, 0, 1, 0, 0, 0, 0, 0, 0>>

\* replies to a request with a V6 address and to one with a domain
C7_Witness ==
    \E s \in Streams, r \in Streams :
       /\ req[s] # <<>> /\ req[s][1].addr_type = "V6" /\ Len(out[s]) = 12
       /\ req[r] # <<>> /\ req[r][1].addr_type = "Domain" /\ Len(out[r]) = 12

FromTarget(s) == Drop(out[s], repliedAt[s])

\* C8: while a stream splices, what the target has received followed by what
\* the agent has still to read is exactly what the controller sent, and what
\* the controller has received after the reply followed by what is still to
\* read from the target is exactly what the target sent; a direction that
\* has finished has delivered everything.
C8_SpliceTransparent ==
    \A s \in Streams :
       pc[s] = "splice" =>
          /\ toTarget[s] \o c2a[s] = sentC[s]
          /\ FromTarget(s) \o t2a[s] = sentT[s]
          /\ s2tDone[s] => toTarget[s] = sentC[s]
          /\ t2sDone[s] => FromTarget(s) = sentT[s]

\* both directions finished, two bytes delivered to the target in order
C8_Witness ==
    \E s \in Streams :
       /\ pc[s] = "splice" /\ s2tDone[s] /\ t2sDone[s]
       /\ Len(sentC[s]) >= 2
       /\ toTarget[s] = sentC[s]

\* C9: once the success reply is written on a stream, a step writes nothing
\* to it, or writes bytes it takes, in order, from the head of what the
\* upstream socket delivered.
C9_RawTunnel ==
    [][\A s \in Streams :
          (repliedAt[s] > 0 /\ pc'[s] \notin {"exited", "cancelled"})
             => \/ out'[s] = out[s]
                \/ \E n \in 1 .. Len(t2a[s]) :
                      /\ out'[s] = out[s] \o Take(t2a[s], n)
                      /\ t2a'[s] = Drop(t2a[s], n)]_vars

\* a task that ended after forwarding upstream bytes behind the reply
C9_Witness ==
    \E s \in Streams :
       /\ pc[s] = "done"
       /\ repliedAt[s] = 12
       /\ Len(out[s]) > 12
       /\ res[s] = "Err_Io"

\* the 10 bytes of a reply with REP = rc
ReplyWith(rc) == <<5, rc, 0, 1, 0, 0, 0, 0, 0, 0>>
Wrote(s, bytes) ==
    \E i \in 0 .. Len(out[s]) - Len(bytes) :
       SubSeq(out[s], i + 1, i + Len(bytes)) = bytes

\* C11: when the task of a BIND or UDP ASSOCIATE request has ended, a reply
\* with REP = 0x07 (command not supported) has been written on the stream.
C11_UnsupportedReply ==
    \A s \in Streams :
       (Command(s) \in {"Bind", "UdpAssosiate"} /\ pc[s] = "done")
          => Wrote(s, ReplyWith(7))

\* C12: a dial attempts a TCP connection to one address only, the first of
\* the resolved list; when it fails no later address is tried, and the
\* upstream socket is never one to a later address.
C12_FirstAddressOnly ==
    \A s \in Streams :
       /\ Len(dialed[s]) <= 1
       /\ target[s] # <<>> => target[s][1] = dialed[s][1]

\* USER/PASS was selected on s and the subnegotiation was refused
AuthRefused(s) == Len(out[s]) >= 4 /\ SubSeq(out[s], 1, 4) = <<5, 2, 1, 1>>

C14_RequestVersion ==
    \A s \in Streams :
       (req[s] # <<>> /\ req[s][1].version # 5)
          => /\ pc[s] = "done"
             /\ ~Contains(trace[s], "resolve")
             /\ sock_addr[s] = <<>> /\ dialed[s] = <<>> /\ target[s] = <<>>

\* C15: whenever the session loop runs and the controller has a further
\* stream to open, the loop can accept and dispatch it, whatever the tasks of
\* the streams accepted before are doing: waiting for a greeting that never
\* comes, dialing, or splicing without end.
C15_NonBlockingAccept ==
    (sess = "accept" /\ NextStream # 0) => ENABLED accept_stream

\* a later stream was dispatched while the task of an earlier one is still
\* waiting for its greeting or splicing
C15_Witness ==
    \E s \in Streams, r \in Streams :
       /\ s < r
       /\ sess = "accept"
       /\ pc[s] \in {"init", "splice"}
       /\ pc[r] = "init" /\ res[r] = "running"

\* C16: a step in which the inbound poll reports a recoverable error leaves
\* the loop accepting, the process running and every task as it was, and
\* spawns nothing; the loop is left only on end-of-stream, with the error
\* "connection closed"; and once it is left no stream is accepted any more.
C16_AcceptErrorScope ==
    [][/\ muxErrs' # muxErrs
             => sess' = "accept" /\ exit' = exit /\ pc' = pc /\ res' = res
       /\ (sess = "accept" /\ sess' # "accept")
             => sess' = "eof" /\ exit' = "err" /\ muxErrs' = muxErrs
       /\ sess = "eof"
             => sess' = "eof" /\ pc' = pc]_vars

\* the session ended on end-of-stream after a poll error had been logged
\* and a stream accepted, a further stream never having been opened
C16_Witness ==
    /\ sess = "eof"
    /\ muxErrs = MaxMuxErrors
    /\ \E s \in Streams : pc[s] \in {"exited", "cancelled"}
    /\ \E s \in Streams : pc[s] = "none"

\* C17: after a greeting whose first byte is not 0x05 the task has ended:
\* it shut the stream down, wrote no byte on it (no method reply, no request
\* reply), and read neither the method list nor a request.
C17_WrongVersionGreeting ==
    \A s \in Streams :
       (Len(pdu[s]) >= 2 /\ pdu[s][1] # 5)
          => /\ pc[s] = "done"
             /\ out[s] = <<>>
             /\ wshut[s]
             /\ trace[s] = <<"read_greeting", "shutdown">>
             /\ req[s] = <<>> /\ dialed[s] = <<>> /\ target[s] = <<>>

\* a version 4 greeting that offers two methods was answered by the shutdown
C17_Witness ==
    \E s \in Streams :
       /\ pdu[s] = <<4, 2, 0, 2>>
       /\ pc[s] = "done" /\ wshut[s] /\ out[s] = <<>>
       /\ res[s] = "Ok"

\* C18: after a whole greeting none of whose methods is in the accepted set
\* (an empty method list included) the agent has written exactly [5, 0xFF]
\* and shut the stream down, and the task has ended with an error, having
\* read no request and dialed nothing.
C18_NoAcceptableMethod ==
    \A s \in Streams :
       (AfterGreeting(s) /\ Range(Offered(s)) \cap Range(auth_methods) = {})
          => /\ out[s] = <<5, 255>>
             /\ wshut[s]
             /\ pc[s] = "done"
             /\ res[s] = "Err_Socks_Failure"
             /\ trace[s] = Append(GreetingEv, "shutdown")
             /\ req[s] = <<>> /\ dialed[s] = <<>> /\ target[s] = <<>>

\* a client that offers only "no authentication" to an agent that accepts
\* only USER/PASS
C18_Witness ==
    \E s \in Streams :
       /\ AfterGreeting(s)
       /\ pdu[s] = <<5, 1, 0>>
       /\ auth_methods = <<UserPass>>
       /\ out[s] = <<5, 255>> /\ pc[s] = "done"

\* C19: once either direction of a splice has read EOF, no further byte is
\* copied in the other direction: a step of the splicing task either ends
\* the task or leaves what was written to the target and to the stream as
\* it was.
C19_SpliceEndsAtFirstEof ==
    [][\A s \in Streams :
          (pc[s] = "splice" /\ (s2tDone[s] \/ t2sDone[s]))
             => \/ pc'[s] \in {"done", "exited", "cancelled"}
                \/ toTarget'[s] = toTarget[s] /\ out'[s] = out[s]]_vars

\* C20: once the session has ended on end-of-stream no task of a stream is
\* running: every task that had been spawned has returned or was cancelled
\* with the session, so none runs on after it.
C20_Cancellation ==
    sess = "eof" => \A s \in Streams : pc[s] \in {"none", "exited", "cancelled"}

\* the session ended while the task of a stream was still running
C20_Witness ==
    /\ sess = "eof"
    /\ \E s \in Streams : pc[s] = "cancelled"

Precedes(tr, a, b) ==
    \A i \in 1 .. Len(tr) : tr[i] = b => \E j \in 1 .. i - 1 : tr[j] = a
Count(tr, a) == Cardinality({i \in 1 .. Len(tr) : tr[i] = a})

\* C22: on every stream the success reply is written at most once and only
\* after the upstream connection is established; before it is written
\* nothing but the method reply is on the stream and no byte has gone to
\* the upstream, and no splice has run; and the method reply is written
\* before the request header is read.
C22_PhaseOrdering ==
    \A s \in Streams :
       /\ Count(trace[s], "write_reply") <= 1
       /\ Precedes(trace[s], "dial", "write_reply")
       /\ Contains(trace[s], "write_reply") <=> repliedAt[s] > 0
       /\ repliedAt[s] > 0 => target[s] # <<>> /\ dialed[s] # <<>>
       /\ repliedAt[s] = 0
             => /\ toTarget[s] = <<>>
                /\ Len(out[s]) <= 2
                /\ sentT[s] = <<>>
                /\ pc[s] # "splice" /\ ~Contains(trace[s], "splice_end")
       /\ Precedes(trace[s], "write_method", "read_request")
       /\ Precedes(trace[s], "read_request", "dial")

\* a payload byte sent along with the request has waited for the reply and
\* was then forwarded, and the stream carries upstream bytes behind the reply
C22_Witness ==
    \E s \in Streams :
       /\ pc[s] = "splice"
       /\ repliedAt[s] = 12
       /\ toTarget[s] # <<>>
       /\ Len(out[s]) > 12

=============================================================================
